---- MODULE Spec2Model ----
(***************************************************************************)
(* Status-display daemon for an SBC with a battery gauge and a 128x64      *)
(* OLED panel.  Two specifications:                                        *)
(*   Spec      the control loop of init_display.py (main, make_shutdown,   *)
(*             the battery monitor, the shutdown policy, the cadence);    *)
(*   SpecPack  OLED_1in3.get_buffer applied to rasters.                    *)
(* Strings are sequences of one-character strings.                        *)
(***************************************************************************)
EXTENDS Integers, Sequences, FiniteSets, TLC

VARIABLES
    pc,              \* position of the single thread of control
    ac_power_state,  \* main: value of pld_line.get_value() (1 = AC, 0 = battery)
    capacity,        \* main: int(read_capacity(bus))
    battery_info,    \* main: get_battery_info(...) of this iteration
    first_line,      \* main: lines[0] of this iteration
    decision,        \* outcome of `if check_shutdown_status(...) == True` in this iteration
    readFailed,      \* history: the register read of this iteration raised IOError
    framePushed,     \* history: disp.show_image ran in this iteration
    delay,           \* argument of the last time.sleep at line 261 (0: none yet)
    lastDelay,       \* argument of the time.sleep before that
    iter,            \* completed loop iterations
    effects,         \* history: terminal side effects in order ("release", "poweroff")
    exitCause,       \* why the process ended
    intAt,           \* pc at which KeyboardInterrupt was raised
    image,           \* get_buffer: [size |-> <<imwidth, imheight>>, ink |-> pixels equal to 0]
    buf,             \* get_buffer: the returned list of bytes
    packed           \* get_buffer has returned

loopVars == <<pc, ac_power_state, capacity, battery_info, first_line, decision,
              readFailed, framePushed, delay, lastDelay, iter, effects,
              exitCause, intAt>>
packVars == <<image, buf, packed>>
vars == <<pc, ac_power_state, capacity, battery_info, first_line, decision,
          readFailed, framePushed, delay, lastDelay, iter, effects,
          exitCause, intAt, image, buf, packed>>

(***************************************************************************)
(* Bounds of the model                                                     *)
(***************************************************************************)
\* loop iterations explored
MaxIter == 2
\* fraction bytes of the gauge word explored at each end of 0..255
FracSpread == 1
\* ink pixels in a raster handed to get_buffer
MaxInk == 1

(***************************************************************************)
(* Constants of init_display.py                                            *)
(***************************************************************************)
SLEEP_TIME_AC == 1
SLEEP_TIME_BAT == 10
BAT_THRESHOLD_HIGH == 70
BAT_THRESHOLD_MEDIUM == 50
BAT_THRESHOLD_LOW == 30
BAT_THRESHOLD_CRIT == 15

(***************************************************************************)
(* Battery monitor                                                         *)
(***************************************************************************)
\* What bus.read_word_data can do: raise IOError, or return a 16-bit word.
\* The word's low byte is the gauge's integer part, its high byte the fraction.
FracBytes == (0..FracSpread) \cup ((255 - FracSpread)..255)
BusReads ==
    {[ok |-> FALSE, word |-> 0]}
        \cup {[ok |-> TRUE, word |-> hi * 256 + lo] : lo \in 0..255, hi \in FracBytes}

\* struct.unpack("<H", struct.pack(">H", read)): the two bytes exchanged
SwapBytes(read) == (read % 256) * 256 + (read \div 256)

\* faulty variant: a failed read yields the all-ones word instead of 0
read_word_sentinel(r) == IF r.ok THEN SwapBytes(r.word) ELSE 65535

read_word(r) == IF r.ok THEN SwapBytes(r.word) ELSE 0

\* read_word(bus, 2) * 1.25 / 1000 / 16 volts.  One step of the word is
\* 78.125 uV = 625 * 0.125 uV; the result is given in units of 0.125 uV.
read_voltage(r) == read_word(r) * 625

\* round(x / 256, 2) in hundredths: ties go to the even hundredth
RoundHundredths(w) ==
    LET q == (w * 25) \div 64
        rem == (w * 25) % 64
    IN  IF rem > 32 \/ (rem = 32 /\ q % 2 = 1) THEN q + 1 ELSE q

\* read_capacity(bus), in hundredths of a percent
read_capacity(r) == RoundHundredths(read_word(r))

\* int(x) of a non-negative value given in hundredths
IntOfHundredths(h) == h \div 100

\* faulty variant: the HIGH band starts above its threshold, so 70 falls through
get_battery_capacity_label_strict_high(value) ==
    IF value > BAT_THRESHOLD_HIGH THEN <<"H">>
    ELSE IF value < BAT_THRESHOLD_HIGH /\ value >= BAT_THRESHOLD_MEDIUM THEN <<"M">>
    ELSE IF value < BAT_THRESHOLD_MEDIUM /\ value >= BAT_THRESHOLD_LOW THEN <<"L">>
    ELSE IF value < BAT_THRESHOLD_LOW /\ value >= BAT_THRESHOLD_CRIT THEN <<"C">>
    ELSE <<"!", "!">>

get_battery_capacity_label(value) ==
    IF value >= BAT_THRESHOLD_HIGH THEN <<"H">>
    ELSE IF value < BAT_THRESHOLD_HIGH /\ value >= BAT_THRESHOLD_MEDIUM THEN <<"M">>
    ELSE IF value < BAT_THRESHOLD_MEDIUM /\ value >= BAT_THRESHOLD_LOW THEN <<"L">>
    ELSE IF value < BAT_THRESHOLD_LOW /\ value >= BAT_THRESHOLD_CRIT THEN <<"C">>
    ELSE <<"!", "!">>

\* str(n) of a non-negative integer
DigitChar(d) == <<"0", "1", "2", "3", "4", "5", "6", "7", "8", "9">>[d + 1]
RECURSIVE Decimal(_)
Decimal(n) == IF n < 10 THEN <<DigitChar(n)>>
              ELSE Decimal(n \div 10) \o <<DigitChar(n % 10)>>

\* faulty variant: the sign of the power source is inverted
get_battery_info_inverted_sign(ac, cap) ==
    <<IF ac = 1 THEN "-" ELSE "+">> \o Decimal(cap) \o <<"%">>
        \o get_battery_capacity_label(cap)

get_battery_info(ac, cap) ==
    <<IF ac = 1 THEN "+" ELSE "-">> \o Decimal(cap) \o <<"%">>
        \o get_battery_capacity_label(cap)

(***************************************************************************)
(* Shutdown policy and cadence                                             *)
(***************************************************************************)
\* faulty variant: the LOW threshold itself is inside the band
check_shutdown_status_incl_low(ac_status, battery_capacity) ==
    /\ ac_status # 1
    /\ BAT_THRESHOLD_LOW >= battery_capacity
    /\ battery_capacity >= BAT_THRESHOLD_CRIT

\* faulty variant: the CRIT threshold itself is outside the band
check_shutdown_status_excl_crit(ac_status, battery_capacity) ==
    /\ ac_status # 1
    /\ BAT_THRESHOLD_LOW > battery_capacity
    /\ battery_capacity > BAT_THRESHOLD_CRIT

check_shutdown_status(ac_status, battery_capacity) ==
    /\ ac_status # 1
    /\ BAT_THRESHOLD_LOW > battery_capacity
    /\ battery_capacity >= BAT_THRESHOLD_CRIT

\* SLEEP_TIME_AC if ac_power_state else SLEEP_TIME_BAT
SleepTime(ac) == IF ac # 0 THEN SLEEP_TIME_AC ELSE SLEEP_TIME_BAT

(***************************************************************************)
(* Main loop                                                               *)
(***************************************************************************)
\* get_current_datetime(): an opaque clock string
ClockStrings == {<<"t", "0">>, <<"t", "1">>}

\* f'{current_time} | {battery_info}'
FirstLine(current_time, info) == current_time \o <<" ", "|", " ">> \o info

\* the SHUTTING_DOWN state: inside make_shutdown
ShutdownPcs == {"shutdown_log", "shutdown_release", "shutdown_poweroff", "shutdown_exit"}
\* the RUNNING state: the loop body outside make_shutdown
RunningPcs == {"top", "read", "check", "info", "compose", "push", "sleep", "slept"}
\* statements that call out to the OS, a subprocess or a bus without a local handler
FaultPcs == {"init", "top", "compose", "push", "shutdown_log"}

InitLoop ==
    /\ pc = "init"
    /\ ac_power_state = 0
    /\ capacity = 0
    /\ battery_info = <<>>
    /\ first_line = <<>>
    /\ decision = "pending"
    /\ readFailed = FALSE
    /\ framePushed = FALSE
    /\ delay = 0
    /\ lastDelay = 0
    /\ iter = 0
    /\ effects = <<>>
    /\ exitCause = "none"
    /\ intAt = "none"

IdlePack ==
    /\ image = [size |-> <<0, 0>>, ink |-> {}]
    /\ buf = <<>>
    /\ packed = FALSE

\* lines 229-237: PID file, bus, GPIO line, disk summary
Setup ==
    /\ pc = "init"
    /\ pc' = "top"
    /\ UNCHANGED <<ac_power_state, capacity, battery_info, first_line, decision,
                   readFailed, framePushed, delay, lastDelay, iter, effects,
                   exitCause, intAt>>
    /\ UNCHANGED packVars

\* line 240
ReadPin ==
    /\ pc = "top"
    /\ \E v \in {0, 1} : ac_power_state' = v
    /\ pc' = "read"
    /\ UNCHANGED <<capacity, battery_info, first_line, decision, readFailed,
                   framePushed, delay, lastDelay, iter, effects, exitCause, intAt>>
    /\ UNCHANGED packVars

\* line 241
ReadBattery ==
    /\ pc = "read"
    /\ \E r \in BusReads :
          /\ capacity' = IntOfHundredths(read_capacity(r))
          /\ readFailed' = ~r.ok
    /\ pc' = "check"
    /\ UNCHANGED <<ac_power_state, battery_info, first_line, decision,
                   framePushed, delay, lastDelay, iter, effects, exitCause, intAt>>
    /\ UNCHANGED packVars

\* lines 242-243: the policy, and the call of make_shutdown when it is true
CheckShutdown ==
    /\ pc = "check"
    /\ IF check_shutdown_status(ac_power_state, capacity)
         THEN decision' = "shutdown" /\ pc' = "shutdown_log"
         ELSE decision' = "continue" /\ pc' = "info"
    /\ UNCHANGED <<ac_power_state, capacity, battery_info, first_line, readFailed,
                   framePushed, delay, lastDelay, iter, effects, exitCause, intAt>>
    /\ UNCHANGED packVars

\* line 210: the log line, which reads the hardware clock
ShutdownLog ==
    /\ pc = "shutdown_log"
    /\ pc' = "shutdown_release"
    /\ UNCHANGED <<ac_power_state, capacity, battery_info, first_line, decision,
                   readFailed, framePushed, delay, lastDelay, iter, effects,
                   exitCause, intAt>>
    /\ UNCHANGED packVars

\* line 211: disp.module_exit()
ShutdownRelease ==
    /\ pc = "shutdown_release"
    /\ effects' = Append(effects, "release")
    /\ pc' = "shutdown_poweroff"
    /\ UNCHANGED <<ac_power_state, capacity, battery_info, first_line, decision,
                   readFailed, framePushed, delay, lastDelay, iter, exitCause, intAt>>
    /\ UNCHANGED packVars

\* line 212: os.system("shutdown now -h")
ShutdownPowerOff ==
    /\ pc = "shutdown_poweroff"
    /\ effects' = Append(effects, "poweroff")
    /\ pc' = "shutdown_exit"
    /\ UNCHANGED <<ac_power_state, capacity, battery_info, first_line, decision,
                   readFailed, framePushed, delay, lastDelay, iter, exitCause, intAt>>
    /\ UNCHANGED packVars

\* line 213: sys.exit(); SystemExit passes both except clauses of main
ShutdownExit ==
    /\ pc = "shutdown_exit"
    /\ exitCause' = "shutdown"
    /\ pc' = "exited"
    /\ UNCHANGED <<ac_power_state, capacity, battery_info, first_line, decision,
                   readFailed, framePushed, delay, lastDelay, iter, effects, intAt>>
    /\ UNCHANGED packVars

\* line 244
BatteryInfo ==
    /\ pc = "info"
    /\ battery_info' = get_battery_info(ac_power_state, capacity)
    /\ pc' = "compose"
    /\ UNCHANGED <<ac_power_state, capacity, first_line, decision, readFailed,
                   framePushed, delay, lastDelay, iter, effects, exitCause, intAt>>
    /\ UNCHANGED packVars

\* lines 245-257: the telemetry, and the five lines
Compose ==
    /\ pc = "compose"
    /\ \E current_time \in ClockStrings :
          first_line' = FirstLine(current_time, battery_info)
    /\ pc' = "push"
    /\ UNCHANGED <<ac_power_state, capacity, battery_info, decision, readFailed,
                   framePushed, delay, lastDelay, iter, effects, exitCause, intAt>>
    /\ UNCHANGED packVars

\* lines 259-260: render, pack and write the frame
Push ==
    /\ pc = "push"
    /\ framePushed' = TRUE
    /\ pc' = "sleep"
    /\ UNCHANGED <<ac_power_state, capacity, battery_info, first_line, decision,
                   readFailed, delay, lastDelay, iter, effects, exitCause, intAt>>
    /\ UNCHANGED packVars

\* faulty variant: the delay is chosen in the first iteration and kept
SleepOnce ==
    /\ pc = "sleep"
    /\ delay' = IF delay = 0 THEN SleepTime(ac_power_state) ELSE delay
    /\ lastDelay' = delay
    /\ pc' = "slept"
    /\ UNCHANGED <<ac_power_state, capacity, battery_info, first_line, decision,
                   readFailed, framePushed, iter, effects, exitCause, intAt>>
    /\ UNCHANGED packVars

\* line 261: time.sleep(SLEEP_TIME_AC if ac_power_state else SLEEP_TIME_BAT)
Sleep ==
    /\ pc = "sleep"
    /\ delay' = SleepTime(ac_power_state)
    /\ lastDelay' = delay
    /\ pc' = "slept"
    /\ UNCHANGED <<ac_power_state, capacity, battery_info, first_line, decision,
                   readFailed, framePushed, iter, effects, exitCause, intAt>>
    /\ UNCHANGED packVars

\* line 239: back to the head of `while True`.  The locals of the finished
\* iteration are dead (each is rebound before its next use) and are cleared;
\* ac_power_state keeps its value until line 240 rebinds it.
LoopBack ==
    /\ pc = "slept"
    /\ iter < MaxIter
    /\ iter' = iter + 1
    /\ capacity' = 0
    /\ battery_info' = <<>>
    /\ first_line' = <<>>
    /\ decision' = "pending"
    /\ readFailed' = FALSE
    /\ framePushed' = FALSE
    /\ pc' = "top"
    /\ UNCHANGED <<ac_power_state, delay, lastDelay, effects, exitCause, intAt>>
    /\ UNCHANGED packVars

\* faulty variant: the handler exits without disp.module_exit()
InterruptNoRelease ==
    /\ pc # "exited"
    /\ intAt' = pc
    /\ exitCause' = "interrupt"
    /\ pc' = "exited"
    /\ UNCHANGED <<ac_power_state, capacity, battery_info, first_line, decision,
                   readFailed, framePushed, delay, lastDelay, iter, effects>>
    /\ UNCHANGED packVars

\* lines 264-266: KeyboardInterrupt raised anywhere inside the try of main
Interrupt ==
    /\ pc # "exited"
    /\ intAt' = pc
    /\ effects' = Append(effects, "release")
    /\ exitCause' = "interrupt"
    /\ pc' = "exited"
    /\ UNCHANGED <<ac_power_state, capacity, battery_info, first_line, decision,
                   readFailed, framePushed, delay, lastDelay, iter>>
    /\ UNCHANGED packVars

\* lines 262-263: an IOError is logged and main returns; any other exception
\* (CalledProcessError of hwclock or vcgencmd, KeyError of "eth0") is not caught
Fault ==
    /\ pc \in FaultPcs
    /\ \E kind \in {"ioerror", "uncaught"} : exitCause' = kind
    /\ pc' = "exited"
    /\ UNCHANGED <<ac_power_state, capacity, battery_info, first_line, decision,
                   readFailed, framePushed, delay, lastDelay, iter, effects, intAt>>
    /\ UNCHANGED packVars

Init == InitLoop /\ IdlePack

Next ==
    \/ Setup
    \/ ReadPin
    \/ ReadBattery
    \/ CheckShutdown
    \/ ShutdownLog
    \/ ShutdownRelease
    \/ ShutdownPowerOff
    \/ ShutdownExit
    \/ BatteryInfo
    \/ Compose
    \/ Push
    \/ Sleep
    \/ LoopBack
    \/ Interrupt
    \/ Fault

Spec == Init /\ [][Next]_vars

(***************************************************************************)
(* Buffer packer (OLED_1in3.get_buffer)                                    *)
(***************************************************************************)
OLED_WIDTH == 128
OLED_HEIGHT == 64

\* [0xFF] * ((self.width // 8) * self.height)
BlankBuffer == [i \in 1..((OLED_WIDTH \div 8) * OLED_HEIGHT) |-> 255]

RECURSIVE Pow2(_)
Pow2(n) == IF n = 0 THEN 1 ELSE 2 * Pow2(n - 1)

\* v & ~(1 << b) of a byte
ClearBit(v, b) == IF (v \div Pow2(b)) % 2 = 1 THEN v - Pow2(b) ELSE v

\* faulty variant: a page is taken to be width // 8 bytes long
NormalIndexShortPage(x, y) == x + (y \div 8) * (OLED_WIDTH \div 8)

\* the list index written for pixel (x, y) when the raster has the panel's size
NormalIndex(x, y) == x + (y \div 8) * OLED_WIDTH

\* the list index written for pixel (x, y) of a raster turned by a quarter:
\* newx = y, newy = self.height - x - 1
TransposedIndex(x, y) == y + ((OLED_HEIGHT - x - 1) \div 8) * OLED_WIDTH

\* The two nested loops clear one bit per ink pixel; the clears commute, so the
\* order in which the ink pixels are taken does not change the list returned.
\* Lists are 1-based here, 0-based in the source.
RECURSIVE ClearInk(_, _, _)
ClearInk(b, ink, transposed) ==
    IF ink = {} THEN b
    ELSE LET p == CHOOSE q \in ink : TRUE
             i == IF transposed THEN TransposedIndex(p[1], p[2])
                  ELSE NormalIndex(p[1], p[2])
         IN  ClearInk([b EXCEPT ![i + 1] = ClearBit(@, p[2] % 8)],
                      ink \ {p}, transposed)

get_buffer(img) ==
    IF img.size[1] = OLED_WIDTH /\ img.size[2] = OLED_HEIGHT
      THEN ClearInk(BlankBuffer, img.ink, FALSE)
    ELSE IF img.size[1] = OLED_HEIGHT /\ img.size[2] = OLED_WIDTH
      THEN ClearInk(BlankBuffer, img.ink, TRUE)
    ELSE BlankBuffer

\* rasters handed to get_buffer: panel-sized, turned by a quarter, neither
ImageSizes == {<<OLED_WIDTH, OLED_HEIGHT>>, <<OLED_HEIGHT, OLED_WIDTH>>,
               <<OLED_HEIGHT, OLED_HEIGHT>>}

InitPack ==
    /\ \E sz \in ImageSizes : image = [size |-> sz, ink |-> {}]
    /\ buf = <<>>
    /\ packed = FALSE

\* The pixels the renderer may set to 0 (ink): any pixel of a blank raster;
\* on a raster that already has ink, its first and its last pixel.
DrawablePixels(img) ==
    IF img.ink = {}
      THEN (0..(img.size[1] - 1)) \X (0..(img.size[2] - 1))
      ELSE {<<0, 0>>, <<img.size[1] - 1, img.size[2] - 1>>}

\* the renderer sets one more pixel of the raster to 0 (ink)
DrawPixel ==
    /\ ~packed
    /\ Cardinality(image.ink) < MaxInk
    /\ \E p \in DrawablePixels(image) :
          image' = [image EXCEPT !.ink = @ \cup {p}]
    /\ UNCHANGED <<buf, packed>>
    /\ UNCHANGED loopVars

\* disp.get_buffer(image)
GetBuffer ==
    /\ ~packed
    /\ buf' = get_buffer(image)
    /\ packed' = TRUE
    /\ UNCHANGED image
    /\ UNCHANGED loopVars

NextPack ==
    \/ DrawPixel
    \/ GetBuffer

InitPackSpec == InitLoop /\ InitPack

SpecPack == InitPackSpec /\ [][NextPack]_vars

(***************************************************************************)
(* Properties                                                              *)
(***************************************************************************)
\* sub occurs in s as a contiguous run
Contains(s, sub) ==
    \E i \in 0..(Len(s) - Len(sub)) : SubSeq(s, i + 1, i + Len(sub)) = sub

\* the label part of a battery string: what follows its "%"
LabelOf(info) ==
    LET k == CHOOSE i \in 1..Len(info) : info[i] = "%"
    IN  SubSeq(info, k + 1, Len(info))

FailedRead == [ok |-> FALSE, word |-> 0]

\* C1: in an iteration whose shutdown policy is true, the display transport is
\* released exactly once, then the host power-off is issued, then the process
\* ends; no frame is pushed in that iteration and the loop is never resumed.
C1_ShutdownSequenceRuns ==
    decision = "shutdown" =>
        /\ ~framePushed
        /\ pc \in ShutdownPcs \cup {"exited"}
        /\ pc \in {"shutdown_log", "shutdown_release"} => effects = <<>>
        /\ pc = "shutdown_poweroff" => effects = <<"release">>
        /\ pc = "shutdown_exit" => effects = <<"release", "poweroff">>
        /\ pc = "exited" =>
              effects = <<"release", "poweroff">> /\ exitCause = "shutdown"

\* C2: for either power state and every capacity in 0..100 the policy is true
\* exactly when the source is the battery and 15 <= capacity < 30.
C2_ShutdownIffBatteryBand ==
    (decision # "pending" /\ capacity \in 0..100) =>
        ((decision = "shutdown")
            <=> (ac_power_state = 0 /\ 15 <= capacity /\ capacity < 30))

C2_Witness ==
    /\ decision = "shutdown"
    /\ pc = "shutdown_log"
    /\ ac_power_state = 0
    /\ capacity = 29

\* C3 as claimed: the policy is true at (BATTERY, 20) and false at (AC, 5),
\* (BATTERY, 15) and (BATTERY, 30).
C3_BoundaryValuesAsClaimed ==
    decision # "pending" =>
        /\ (ac_power_state = 0 /\ capacity = 20) => decision = "shutdown"
        /\ (ac_power_state = 1 /\ capacity = 5) => decision = "continue"
        /\ (ac_power_state = 0 /\ capacity = 15) => decision = "continue"
        /\ (ac_power_state = 0 /\ capacity = 30) => decision = "continue"

\* C3 as amended: the policy is true at (BATTERY, 20) and at (BATTERY, 15), the
\* CRITICAL threshold itself, and false at (AC, 5), (BATTERY, 30) and
\* (BATTERY, 14).
C3_BoundaryValues ==
    decision # "pending" =>
        /\ (ac_power_state = 0 /\ capacity = 20) => decision = "shutdown"
        /\ (ac_power_state = 1 /\ capacity = 5) => decision = "continue"
        /\ (ac_power_state = 0 /\ capacity = 15) => decision = "shutdown"
        /\ (ac_power_state = 0 /\ capacity = 14) => decision = "continue"
        /\ (ac_power_state = 0 /\ capacity = 30) => decision = "continue"

C3_Witness ==
    /\ decision = "shutdown"
    /\ pc = "shutdown_log"
    /\ ac_power_state = 0
    /\ capacity = 15

\* C4 as claimed: an iteration on battery with capacity 25 composes "-25%L",
\* does not trigger the shutdown, pushes a frame and sleeps the battery interval.
C4_Battery25AsClaimed ==
    (ac_power_state = 0 /\ capacity = 25 /\ decision # "pending") =>
        /\ decision = "continue"
        /\ pc \notin ShutdownPcs
        /\ first_line # <<>> => Contains(first_line, <<"-", "2", "5", "%", "L">>)
        /\ pc \in {"sleep", "slept"} => framePushed
        /\ pc = "slept" => delay = 10

\* C4 as amended: an iteration on battery with capacity 35 composes "-35%L",
\* does not trigger the shutdown, pushes a frame and sleeps the battery
\* interval of 10.
C4_Battery35 ==
    (ac_power_state = 0 /\ capacity = 35) =>
        /\ decision # "shutdown"
        /\ pc \notin ShutdownPcs
        /\ exitCause # "shutdown"
        /\ pc \in {"compose", "push", "sleep", "slept"} =>
              battery_info = <<"-", "3", "5", "%", "L">>
        /\ pc \in {"push", "sleep", "slept"} =>
              Contains(first_line, <<"-", "3", "5", "%", "L">>)
        /\ pc \in {"sleep", "slept"} => framePushed
        /\ pc = "slept" => delay = 10

C4_Witness ==
    /\ pc = "slept"
    /\ ac_power_state = 0
    /\ capacity = 35
    /\ decision = "continue"
    /\ framePushed
    /\ Contains(first_line, <<"-", "3", "5", "%", "L">>)
    /\ delay = 10

\* C5: every capacity in 0..100 gets exactly one label: "H" from 70, "M" for
\* 50..69, "L" for 30..49, "C" for 15..29 and "!!" for 0..14.
C5_ClassifyBands ==
    (battery_info # <<>> /\ capacity \in 0..100) =>
        LabelOf(battery_info) =
            IF capacity >= 70 THEN <<"H">>
            ELSE IF capacity >= 50 THEN <<"M">>
            ELSE IF capacity >= 30 THEN <<"L">>
            ELSE IF capacity >= 15 THEN <<"C">>
            ELSE <<"!", "!">>

C5_Witness ==
    /\ pc = "compose"
    /\ capacity = 29
    /\ LabelOf(battery_info) = <<"C">>

\* C6: a failed register read yields capacity 0 and voltage 0; the iteration
\* does not enter the shutdown sequence, and it goes on to push a frame and
\* sleep for either power state; the process does not end by the shutdown path.
C6_FailedReadDegrades ==
    /\ read_voltage(FailedRead) = 0
    /\ IntOfHundredths(read_capacity(FailedRead)) = 0
    /\ readFailed =>
          /\ capacity = 0
          /\ decision # "shutdown"
          /\ pc \notin ShutdownPcs
          /\ exitCause \notin {"shutdown"}
          /\ pc = "exited" => intAt # "none" \/ exitCause \in {"ioerror", "uncaught"}
          /\ pc \in {"sleep", "slept"} => framePushed
          /\ pc = "slept" => delay = SleepTime(ac_power_state)

C6_Witness ==
    /\ readFailed
    /\ pc = "slept"
    /\ ac_power_state = 0
    /\ capacity = 0
    /\ framePushed
    /\ delay = 10

\* C7: an interrupt taken while the loop is in its RUNNING state releases the
\* display transport once and ends the process; the host power-off is never
\* issued and nothing runs afterwards.
C7_InterruptReleasesOnly ==
    (exitCause = "interrupt" /\ intAt \in RunningPcs) =>
        /\ pc = "exited"
        /\ effects = <<"release">>
        /\ ~ENABLED Next

C7_Witness ==
    /\ exitCause = "interrupt"
    /\ intAt = "sleep"
    /\ iter >= 1
    /\ effects = <<"release">>

\* C8: the delay of each iteration follows the power state read in that same
\* iteration: 1 on AC, 10 on battery, which is ten times the AC interval.
C8_DelayFollowsPowerState ==
    /\ SLEEP_TIME_AC < SLEEP_TIME_BAT
    /\ SLEEP_TIME_BAT = 10 * SLEEP_TIME_AC
    /\ pc = "slept" => delay = IF ac_power_state = 1 THEN 1 ELSE 10

C8_Witness ==
    /\ pc = "slept"
    /\ iter >= 1
    /\ lastDelay = 1
    /\ delay = 10
    /\ ac_power_state = 0

\* C9: the capacity the loop uses is an integer in 0..100 whatever word the
\* register bus returns.
C9_CapacityIsPercent == capacity \in 0..100

\* C10: packing a panel-sized raster with exactly one ink pixel (x0, y0) gives
\* (width // 8) * height bytes, all 0xFF except byte x0 + (y0 // 8) * width,
\* in which exactly bit y0 % 8 is cleared.
C10_SinglePixelPack ==
    /\ packed => Len(buf) = (128 \div 8) * 64
    /\ (packed /\ image.size = <<128, 64>> /\ Cardinality(image.ink) = 1) =>
          LET p == CHOOSE q \in image.ink : TRUE
              x0 == p[1]
              y0 == p[2]
          IN  \A i \in 0..(Len(buf) - 1) :
                  buf[i + 1] = IF i = x0 + (y0 \div 8) * 128
                               THEN 255 - Pow2(y0 % 8)
                               ELSE 255

C10_Witness ==
    /\ packed
    /\ image.size = <<128, 64>>
    /\ image.ink = {<<127, 63>>}
    /\ buf[1024] = 127

====
